---- MODULE Spec2Model ----
(***************************************************************************)
(* Model of the auth_modifier Caddy handler (type AuthModifier): the index *)
(* table Indexes guarded by Mutex, the dirty flag Changed, the request     *)
(* handler ServeHTTP with updateIndex, the snapshot file written by        *)
(* saveIndexes and read by loadIndexes, the ticker goroutine started by    *)
(* Provision and the shutdown path Cleanup.                                *)
(***************************************************************************)
EXTENDS Integers, Sequences, FiniteSets, TLC

\* ------------------------------------------------------------------ bounds
\* Goroutines that serve requests at the same time.
NumWorkers == 2
\* Requests served in one run, when they may overlap.
MaxReqs == 2
\* Requests served in one run, when they are served one at a time.
MaxSeqReqs == 3
\* File writes that fail in one run.
MaxFail == 1

Workers == 1..NumWorkers

\* ------------------------------------------------------------ header text
\* A header value is a sequence of one-character strings; the absent header
\* is the empty sequence (http.Header.Get returns "").
ToLowerChar(c) ==
  CASE c = "B" -> "b"
    [] c = "E" -> "e"
    [] c = "A" -> "a"
    [] c = "R" -> "r"
    [] OTHER -> c

\* strings.ToLower
ToLower(s) == [i \in 1..Len(s) |-> ToLowerChar(s[i])]

IsSpace(c) == c \in {" ", "\t"}

\* strings.TrimSpace: drops the white space at both ends, none inside.
RECURSIVE TrimLeft(_)
TrimLeft(s) == IF s # <<>> /\ IsSpace(Head(s)) THEN TrimLeft(Tail(s)) ELSE s

RECURSIVE TrimRight(_)
TrimRight(s) ==
  IF s # <<>> /\ IsSpace(s[Len(s)]) THEN TrimRight(SubSeq(s, 1, Len(s) - 1)) ELSE s

TrimSpace(s) == TrimRight(TrimLeft(s))

\* strings.Split(s, ","): the pieces between the separators; the empty
\* string splits into one empty piece.
RECURSIVE SplitFrom(_, _)
SplitFrom(s, cur) ==
  IF s = <<>> THEN <<cur>>
  ELSE IF Head(s) = "," THEN <<cur>> \o SplitFrom(Tail(s), <<>>)
  ELSE SplitFrom(Tail(s), Append(cur, Head(s)))

Split(s) == SplitFrom(s, <<>>)

\* prefix := "bearer "
prefix == <<"b", "e", "a", "r", "e", "r", " ">>

\* The canonical prefix written back: "Bearer "+selectedToken
Bearer == <<"B", "e", "a", "r", "e", "r", " ">>

\* len(authHeader) >= 7 && strings.HasPrefix(strings.ToLower(authHeader[:7]), prefix)
HasBearerPrefix(h) == Len(h) >= 7 /\ ToLower(SubSeq(h, 1, 7)) = prefix

\* The candidate list ServeHTTP takes from the Authorization value: the
\* trimmed remainder after the prefix, or the whole value.
AuthTokens(h) ==
  IF HasBearerPrefix(h) THEN Split(TrimSpace(SubSeq(h, 8, Len(h))))
  ELSE Split(h)

\* Mutant: the prefix is written back as the client sent it.
AuthRewriteAsSent(h, tok) ==
  IF HasBearerPrefix(h) THEN SubSeq(h, 1, 7) \o tok ELSE tok

\* The Authorization value written back for the selected token.
AuthRewrite(h, tok) == IF HasBearerPrefix(h) THEN Bearer \o tok ELSE tok

\* Go's remainder: truncated division, the sign of the dividend.
GoRem(a, n) == IF a >= 0 THEN a % n ELSE -((-a) % n)

\* ------------------------------------------------------------- index table
\* r.URL.Path is the unescaped path: the request path /%FF gives the key made
\* of "/" and the byte 0xFF, which is not valid UTF-8 (RawKey); the path
\* /%EF%BF%BD gives "/" and the character U+FFFD (ReplKey).
RawKey == "/<0xFF>"
ReplKey == "/<U+FFFD>"

Keys == {"/a", "/b", ReplKey, RawKey}

\* json.Marshal writes the members sorted by the map's keys, as byte strings.
KeyOrder == <<"/a", "/b", ReplKey, RawKey>>

EmptyFn == [k \in {} |-> 0]

\* A Go map[string]int: nil (the zero value of the field) or allocated.
NilMap == [nil |-> TRUE, m |-> EmptyFn]
EmptyMap == [nil |-> FALSE, m |-> EmptyFn]

\* a.Indexes[url] as an expression: 0 for a missing key, also on a nil map.
Get(t, k) == IF k \in DOMAIN t.m THEN t.m[k] ELSE 0

\* a.Indexes[url] = v on an allocated map.
Put(t, k, v) ==
  [nil |-> FALSE,
   m |-> [x \in (DOMAIN t.m) \cup {k} |-> IF x = k THEN v ELSE t.m[x]]]

\* ---------------------------------------------------------- snapshot file
\* The file's content: absent, bytes that are not JSON, the JSON literal
\* null, or a JSON object given as its members in file order; a member's
\* value is an integer or some other JSON value (isInt FALSE).
Absent == [kind |-> "absent", pairs |-> <<>>]
Garbage == [kind |-> "garbage", pairs |-> <<>>]
NullFile == [kind |-> "null", pairs |-> <<>>]
Object(ps) == [kind |-> "object", pairs |-> ps]
Member(k, v) == [k |-> k, isInt |-> TRUE, v |-> v]
BadMember(k) == [k |-> k, isInt |-> FALSE, v |-> 0]

\* json.Marshal of a map[string]int: null for the nil map, else an object
\* with the keys in sorted order. It returns no error for this type.
\* The member name json.Marshal writes for the key k: the key as a JSON
\* string, every byte that is not valid UTF-8 replaced by U+FFFD.
JsonKey(k) == IF k = RawKey THEN ReplKey ELSE k

RECURSIVE MarshalFrom(_, _)
MarshalFrom(t, i) ==
  IF i > Len(KeyOrder) THEN <<>>
  ELSE (IF KeyOrder[i] \in DOMAIN t.m
          THEN <<Member(JsonKey(KeyOrder[i]), t.m[KeyOrder[i]])>>
          ELSE <<>>) \o MarshalFrom(t, i + 1)

Marshal(t) == IF t.nil THEN NullFile ELSE Object(MarshalFrom(t, 1))

\* json.Unmarshal(data, &a.Indexes): invalid JSON is an error and leaves the
\* map as it was; null sets the map to nil; an object is decoded member by
\* member into the map (allocated when nil), a member whose value is no
\* integer is stored as 0 and makes the call return an error at the end.
RECURSIVE DecodeMembers(_, _)
DecodeMembers(ps, t) ==
  IF ps = <<>> THEN t
  ELSE DecodeMembers(Tail(ps), Put(t, Head(ps).k, Head(ps).v))

Unmarshal(data, t) ==
  CASE data.kind = "garbage" -> [err |-> TRUE, t |-> t]
    [] data.kind = "null" -> [err |-> FALSE, t |-> NilMap]
    [] OTHER ->
         [err |-> \E i \in 1..Len(data.pairs) : ~data.pairs[i].isInt,
          t |-> DecodeMembers(data.pairs, [t EXCEPT !.nil = FALSE])]

\* os.ReadFile: an error when the directory cannot be entered or the file
\* does not exist.
ReadFails(d, blocked) == blocked \/ d.kind = "absent"

\* Mutant: the table is kept as json.Unmarshal left it when it returns an
\* error.
loadIndexesKeep(t, d, blocked) ==
  IF ReadFails(d, blocked) THEN EmptyMap ELSE Unmarshal(d, t).t

\* loadIndexes: the table Provision starts with.
loadIndexes(t, d, blocked) ==
  IF ReadFails(d, blocked) THEN EmptyMap
  ELSE LET u == Unmarshal(d, t)
       IN IF u.err THEN EmptyMap ELSE u.t

\* ---------------------------------------------------------------- inputs
\* The requests a run draws from: the URL path and the two header values.
Request(k, a, g) == [key |-> k, auth |-> a, api |-> g]

ApiTwo == <<"x", ",", "y">>
BearerTwo == <<"B", "e", "a", "r", "e", "r", " ", "a", ",", "b">>
RawThree == <<"a", ",", "b", ",", "c">>
BearerOnly == <<"b", "E", "A", "R", "E", "R", " ">>

Requests ==
  { Request("/a", <<>>, ApiTwo),
    Request("/a", BearerTwo, ApiTwo),
    Request("/b", RawThree, <<>>),
    Request("/a", <<>>, <<>>),
    Request("/a", BearerOnly, <<>>) }

NoRequest == Request("", <<>>, <<>>)

\* Authorization values: the prefix in several letter cases, with and
\* without candidates and white space after it, and values without it.
BearerSpaced ==
  <<"B", "E", "A", "R", "E", "R", " ", "\t", "a", ",", " ", "b", " ">>
BearerBare == <<"B", "e", "a", "r", "e", "r">>
BearerGlued == <<"B", "e", "a", "r", "e", "r", "a", ",", "b">>
BearerLate == <<" ", "B", "e", "a", "r", "e", "r", " ", "a">>
CommaOnly == <<",">>

AuthValues ==
  { BearerTwo, BearerOnly, RawThree, BearerSpaced, BearerBare, BearerGlued,
    BearerLate, CommaOnly }

AuthRequests == { Request("/a", h, <<>>) : h \in AuthValues }

\* Requests that carry both lists, of equal and of different lengths.
BothRequests ==
  { Request("/a", BearerTwo, ApiTwo),
    Request("/a", RawThree, ApiTwo) }

\* The requests of a run that is ended and started again: paths whose key
\* is, and is not, valid UTF-8.
PathRequests ==
  { Request("/a", <<>>, ApiTwo),
    Request(RawKey, <<>>, ApiTwo),
    Request(ReplKey, RawThree, <<>>) }

\* The snapshot files a run may find at startup.
InitialFiles ==
  { Absent, Garbage, NullFile,
    Object(<<BadMember("/a")>>),
    Object(<<Member("/a", 1)>>),
    Object(<<Member("/b", -1)>>) }

\* ----------------------------------------------------------------- state
Flushers == {"bg", "cl"}

\* Every critical section of a.Mutex (RLock..RUnlock, Lock..Unlock) is one
\* step, taken when the mutex is free. The mutex stays held only when the
\* goroutine holding it panics: mutex is then "leaked", for good.
VARIABLES
  Indexes,   \* a.Indexes
  Changed,   \* a.Changed
  mutex,     \* a.Mutex: "free" or "leaked"
  disk,      \* the content of the file at a.IndexPath
  blocked,   \* the file's directory cannot be created or entered
  fails,     \* file writes that failed so far
  phase,     \* "new" before Provision, "running" after
  ctxDone,   \* a.cancel() was called
  stopped,   \* a.SaveTicker.Stop() was called
  tickC,     \* a tick waits in a.SaveTicker.C (a channel of capacity 1)
  fpc,       \* where the ticker goroutine ("bg") and Cleanup ("cl") are
  data,      \* saveIndexes' local data, per flusher
  wpc,       \* where each request goroutine is
  req,       \* the request each worker serves
  index,     \* ServeHTTP's local index, per worker
  out,       \* the header values each worker has set
  wrote,     \* the position each worker's last updateIndex stored
  started,   \* requests started so far
  file0,     \* history: the file's content when the process started
  loaded,    \* history: the table Provision loaded
  mkdirErr,  \* history: ensureDir returned an error
  adv,       \* history: per key, the requests with a list begun (reqs), the
             \* updateIndex calls completed (cnt) and their lengths (lens)
  mark,      \* history: per flusher in saveIndexes past its serialization,
             \* what held when it serialized: the updateIndex calls completed
             \* (adv), and whether a flush had failed and returned and none
             \* was still writing (retry)
  last,      \* history: per key, the last request that was passed on
  before,    \* history: per worker, last[key] when its request began
  restarted, \* the process was ended and started again on the same file
  prior,     \* history: the table of the process that was ended
  flushed,   \* history: that table was clean and the file held its flush
  \* A second run of the handler, given the same file at startup and the
  \* same requests in the same order; it differs in what its writes do.
  Indexes2,  \* its a.Indexes
  Changed2,  \* its a.Changed
  mutex2,    \* its a.Mutex
  disk2,     \* its file
  fpc2,      \* where its ticker goroutine is
  data2,     \* saveIndexes' local data there
  wpc2,      \* where its request goroutine is
  index2,    \* ServeHTTP's local index there
  out2,      \* the header values set there
  started2,  \* requests started there so far
  \* a.Mutex lock by lock, where a critical section is followed step by step.
  rw,        \* a.Mutex: held for writing (writer), the read locks held (readers)
  cursor,    \* per flusher, the keys json.Marshal has read so far
  snapAt     \* history: per flusher, the table when it took the lock

vars ==
  <<Indexes, Changed, mutex, disk, blocked, fails, phase, ctxDone, stopped,
    tickC, fpc, data, wpc, req, index, out, wrote, started, file0, loaded,
    mkdirErr, adv, mark, last, before, restarted, prior, flushed,
    Indexes2, Changed2, mutex2, disk2, fpc2, data2, wpc2, index2, out2,
    started2, rw, cursor, snapAt>>

shared == <<Indexes, Changed, mutex>>
fsVars == <<disk, blocked, fails>>
lifeVars == <<phase, ctxDone, stopped, tickC>>
flushVars == <<fpc, data>>
workVars == <<wpc, req, index, out, wrote, started>>
restartVars == <<restarted, prior, flushed>>
twinVars ==
  <<Indexes2, Changed2, mutex2, disk2, fpc2, data2, wpc2, index2, out2,
    started2>>
snapVars == <<rw, cursor, snapAt>>
histVars ==
  <<file0, loaded, mkdirErr, adv, mark, last, before, restartVars, twinVars,
    snapVars>>

NoOut == [auth |-> <<>>, api |-> <<>>, authSet |-> FALSE, apiSet |-> FALSE]
NoAdv == [reqs |-> 0, cnt |-> 0, lens |-> {}]
NoLast == [req |-> NoRequest, out |-> NoOut]
NoMark == [adv |-> 0, retry |-> FALSE]

\* The state after new(AuthModifier): nothing provisioned, the map nil.
Init ==
  /\ Indexes = NilMap
  /\ Changed = FALSE
  /\ mutex = "free"
  /\ blocked \in BOOLEAN
  /\ disk \in (IF blocked THEN {Absent} ELSE InitialFiles)
  /\ fails = 0
  /\ phase = "new"
  /\ ctxDone = FALSE
  /\ stopped = FALSE
  /\ tickC = FALSE
  /\ fpc = [f \in Flushers |-> "off"]
  /\ data = [f \in Flushers |-> NullFile]
  /\ wpc = [w \in Workers |-> "idle"]
  /\ req = [w \in Workers |-> NoRequest]
  /\ index = [w \in Workers |-> 0]
  /\ out = [w \in Workers |-> NoOut]
  /\ wrote = [w \in Workers |-> 0]
  /\ started = 0
  /\ file0 = disk
  /\ loaded = NilMap
  /\ mkdirErr = FALSE
  /\ adv = [k \in Keys |-> NoAdv]
  /\ mark = [f \in Flushers |-> NoMark]
  /\ last = [k \in Keys |-> NoLast]
  /\ before = [w \in Workers |-> NoLast]
  /\ restarted = FALSE
  /\ prior = NilMap
  /\ flushed = FALSE
  /\ Indexes2 = NilMap
  /\ Changed2 = FALSE
  /\ mutex2 = "free"
  /\ disk2 = disk
  /\ fpc2 = "off"
  /\ data2 = NullFile
  /\ wpc2 = "idle"
  /\ index2 = 0
  /\ out2 = NoOut
  /\ started2 = 0
  /\ rw = [writer |-> FALSE, readers |-> 0]
  /\ cursor = [f \in Flushers |-> 0]
  /\ snapAt = [f \in Flushers |-> NilMap]

\* ------------------------------------------------------------- Provision
\* os.MkdirAll in ensureDir fails exactly when the directory cannot be
\* created or entered.
ensureDir == blocked

\* Provision logs ensureDir's error and goes on; it loads the table, starts
\* the ticker and the goroutine that waits on it, and returns nil.
Provision ==
  /\ phase = "new"
  /\ phase' = "running"
  /\ mkdirErr' = ensureDir
  /\ Indexes' = loadIndexes(Indexes, disk, blocked)
  /\ loaded' = Indexes'
  /\ fpc' = [fpc EXCEPT !["bg"] = "select", !["cl"] = "idle"]
  /\ UNCHANGED <<Changed, mutex, fsVars, ctxDone, stopped, tickC, data,
                 workVars, restartVars, twinVars, snapVars, file0, adv, mark, last, before>>

\* ------------------------------------------------------------- ServeHTTP
\* tokens[index%len(tokens)]: the position in the list, counted from 0; a
\* negative remainder is an index out of range, a run-time panic.
SelectIdx(i, n) == GoRem(i, n)

\* The Authorization branch up to its call of updateIndex, for the header
\* value h and the local index i: whether the branch is taken (use), whether
\* the selection panics, the list length and the header value set.
AuthSel(h, i) ==
  LET tokens == AuthTokens(h)
      s == SelectIdx(i, Len(tokens))
  IN [use |-> Len(h) > 0 /\ Len(tokens) > 0,
      panic |-> s < 0,
      n |-> Len(tokens),
      value |-> IF s < 0 THEN <<>> ELSE AuthRewrite(h, tokens[s + 1])]

\* Mutant: the X-Goog-Api-Key branch without its test len(apiKeyHeader) > 0.
ApiSelAlways(h, i) ==
  LET apiKeys == Split(h)
      s == SelectIdx(i, Len(apiKeys))
  IN [use |-> Len(apiKeys) > 0,
      panic |-> s < 0,
      n |-> Len(apiKeys),
      value |-> IF s < 0 THEN <<>> ELSE apiKeys[s + 1]]

\* The same for the X-Goog-Api-Key branch.
ApiSel(h, i) ==
  LET apiKeys == Split(h)
      s == SelectIdx(i, Len(apiKeys))
  IN [use |-> Len(h) > 0 /\ Len(apiKeys) > 0,
      panic |-> s < 0,
      n |-> Len(apiKeys),
      value |-> IF s < 0 THEN <<>> ELSE apiKeys[s + 1]]

\* Mutant: the X-Goog-Api-Key selection uses the position after the
\* Authorization advance instead of the index read at the start.
ApiPhaseNext(r, i, o) ==
  LET g == ApiSel(r.api, i + 1)
  IN IF ~g.use THEN [pc |-> "done", out |-> o]
     ELSE IF g.panic THEN [pc |-> "panic", out |-> o]
     ELSE [pc |-> "apiUpd", out |-> [o EXCEPT !.api = g.value, !.apiSet = TRUE]]

\* ServeHTTP from the end of its Authorization branch to its next access of
\* the table or its end: where the goroutine is then, and the headers set.
ApiPhase(r, i, o) ==
  LET g == ApiSel(r.api, i)
  IN IF ~g.use THEN [pc |-> "done", out |-> o]
     ELSE IF g.panic THEN [pc |-> "panic", out |-> o]
     ELSE [pc |-> "apiUpd", out |-> [o EXCEPT !.api = g.value, !.apiSet = TRUE]]

\* ServeHTTP from the read of index to its next access of the table.
AuthPhase(r, i) ==
  LET a == AuthSel(r.auth, i)
  IN IF ~a.use THEN ApiPhase(r, i, NoOut)
     ELSE IF a.panic THEN [pc |-> "panic", out |-> NoOut]
     ELSE [pc |-> "authUpd",
           out |-> [NoOut EXCEPT !.auth = a.value, !.authSet = TRUE]]

\* The lists a request carries: 0, 1 or 2.
Lists(r) == (IF Len(r.auth) > 0 THEN 1 ELSE 0) + (IF Len(r.api) > 0 THEN 1 ELSE 0)

\* The record of a request that has been passed to next.ServeHTTP.
Passed(k, w, o) == [last EXCEPT ![k] = [req |-> req[w], out |-> o]]

\* A request r arrives; its goroutine w reads index under the read lock
\* (RLock; index := a.Indexes[r.URL.Path]; RUnlock) and runs on to its first
\* call of updateIndex, or to next.ServeHTTP when it carries no list.
BeginRequest(w, r) ==
  /\ phase = "running"
  /\ wpc[w] \in {"idle", "done"}
  /\ mutex = "free"
  /\ LET i == Get(Indexes, r.key)
         p == AuthPhase(r, i)
     IN /\ index' = [index EXCEPT ![w] = i]
        /\ out' = [out EXCEPT ![w] = p.out]
        /\ wpc' = [wpc EXCEPT ![w] = p.pc]
        /\ last' = IF p.pc = "done"
                     THEN [last EXCEPT ![r.key] = [req |-> r, out |-> p.out]]
                     ELSE last
  /\ started' = started + 1
  /\ req' = [req EXCEPT ![w] = r]
  /\ wrote' = [wrote EXCEPT ![w] = 0]
  /\ before' = [before EXCEPT ![w] = last[r.key]]
  /\ adv' = [adv EXCEPT ![r.key].reqs = @ + (IF Lists(r) > 0 THEN 1 ELSE 0)]
  /\ UNCHANGED <<shared, fsVars, lifeVars, flushVars, restartVars, twinVars, snapVars, file0, loaded, mkdirErr,
                 mark>>

\* Requests arrive at any time, also while others are being served.
Begin(w, r) == started < MaxReqs /\ BeginRequest(w, r)

\* Requests arrive one after the other, none while another is being served;
\* the goroutines being alike, the first serves them all.
SeqBegin(w, r) ==
  /\ started < MaxSeqReqs
  /\ w = 1
  /\ \A v \in Workers : wpc[v] \in {"idle", "done"}
  /\ BeginRequest(w, r)

\* The length updateIndex is called with at this point of ServeHTTP.
UpdLength(w) ==
  IF wpc[w] = "authUpd" THEN Len(AuthTokens(req[w].auth)) ELSE Len(Split(req[w].api))

\* Mutant: the new position is not reduced modulo the length.
NextPositionNoWrap(w) == Get(Indexes, req[w].key) + 1

\* Mutant: the new position is computed from the index ServeHTTP read at its
\* start instead of the position stored now.
NextPositionStale(w) == GoRem(index[w] + 1, UpdLength(w))

\* (a.Indexes[url] + 1) % length, as worker w's call of updateIndex computes
\* it from the position stored at that moment.
NextPosition(w) == GoRem(Get(Indexes, req[w].key) + 1, UpdLength(w))

\* updateIndex(r.URL.Path, len(tokens)): Lock; a.Indexes[url] =
\* (a.Indexes[url] + 1) % length; a.Changed = true; Unlock. The assignment
\* panics on a nil map, before Changed is set and with the mutex held. After
\* it ServeHTTP runs on to its next call of updateIndex or to next.ServeHTTP.
updateIndex(w) ==
  /\ wpc[w] \in {"authUpd", "apiUpd"}
  /\ mutex = "free"
  /\ LET k == req[w].key
         n == UpdLength(w)
         v == NextPosition(w)
         p == IF wpc[w] = "authUpd" THEN ApiPhase(req[w], index[w], out[w])
              ELSE [pc |-> "done", out |-> out[w]]
     IN IF Indexes.nil
          THEN /\ mutex' = "leaked"
               /\ wpc' = [wpc EXCEPT ![w] = "panic"]
               /\ UNCHANGED <<Indexes, Changed, out, wrote, adv, last>>
          ELSE /\ Indexes' = Put(Indexes, k, v)
               /\ Changed' = TRUE
               /\ mutex' = mutex
               /\ wrote' = [wrote EXCEPT ![w] = v]
               /\ adv' = [adv EXCEPT ![k].cnt = @ + 1, ![k].lens = @ \cup {n}]
               /\ wpc' = [wpc EXCEPT ![w] = p.pc]
               /\ out' = [out EXCEPT ![w] = p.out]
               /\ last' = IF p.pc = "done" THEN Passed(k, w, p.out) ELSE last
  /\ UNCHANGED <<fsVars, lifeVars, flushVars, req, index, started, restartVars, twinVars, snapVars, file0,
                 loaded, mkdirErr, mark, before>>

\* ----------------------------------------------------------- saveIndexes
\* Where a flusher goes when saveIndexes returns: the goroutine back to its
\* select, Cleanup to its return.
Ret(f) == IF f = "bg" THEN "select" ELSE "returned"

\* The updateIndex calls completed so far, over all keys.
RECURSIVE AdvancesFrom(_)
AdvancesFrom(i) ==
  IF i > Len(KeyOrder) THEN 0 ELSE adv[KeyOrder[i]].cnt + AdvancesFrom(i + 1)

Advances == AdvancesFrom(1)

\* Mutant: saveIndexes does not look at a.Changed.
SkipNever == FALSE

\* if !a.Changed { unlock; return }
SkipClean == ~Changed

\* saveIndexes under the lock: return when nothing changed, else
\* data := Marshal(a.Indexes), a.Changed = false; Unlock on both paths.
\* (json.Marshal returns no error for a map[string]int.)
SaveBegin(f) ==
  /\ fpc[f] = "save"
  /\ mutex = "free"
  /\ IF SkipClean
       THEN /\ fpc' = [fpc EXCEPT ![f] = Ret(f)]
            /\ UNCHANGED <<Changed, data, mark>>
       ELSE /\ data' = [data EXCEPT ![f] = Marshal(Indexes)]
            /\ Changed' = FALSE
            /\ fpc' = [fpc EXCEPT ![f] = "write"]
            /\ mark' = [mark EXCEPT ![f] =
                        [adv |-> Advances,
                         retry |-> /\ fails > 0
                                   /\ \A g \in Flushers : fpc[g] \notin {"write", "failed"}]]
  /\ UNCHANGED <<Indexes, mutex, fsVars, lifeVars, workVars, restartVars, twinVars, snapVars, file0, loaded,
                 mkdirErr, adv, last, before>>

\* os.WriteFile(a.IndexPath, data, 0644) returns nil: the file holds data.
WriteOk(f) ==
  /\ fpc[f] = "write"
  /\ ~blocked
  /\ disk' = data[f]
  /\ fpc' = [fpc EXCEPT ![f] = Ret(f)]
  /\ mark' = [mark EXCEPT ![f] = NoMark]
  /\ UNCHANGED <<shared, blocked, fails, lifeVars, data, workVars, restartVars, twinVars, snapVars, file0,
                 loaded, mkdirErr, adv, last, before>>

\* What a failed os.WriteFile leaves of the file d: d itself when the file
\* could not be opened; when it was opened (and so truncated) and the write
\* failed, a file cut short, which is not JSON.
FailedWrite(d) == IF blocked THEN {d} ELSE {d, Garbage}

\* os.WriteFile returns an error.
WriteFail(f) ==
  /\ fpc[f] = "write"
  /\ blocked \/ fails < MaxFail
  /\ fails' = IF blocked THEN fails ELSE fails + 1
  /\ disk' \in FailedWrite(disk)
  /\ fpc' = [fpc EXCEPT ![f] = "failed"]
  /\ UNCHANGED <<shared, blocked, lifeVars, data, workVars, histVars>>

\* Mutant: the failed write is logged and Changed is left false.
RestoreForget(f) ==
  /\ fpc[f] = "failed"
  /\ mutex = "free"
  /\ fpc' = [fpc EXCEPT ![f] = Ret(f)]
  /\ mark' = [mark EXCEPT ![f] = NoMark]
  /\ UNCHANGED <<shared, fsVars, lifeVars, data, workVars, restartVars, twinVars, snapVars, file0, loaded,
                 mkdirErr, adv, last, before>>

\* After the failed write: Lock; a.Changed = true; Unlock; return.
Restore(f) ==
  /\ fpc[f] = "failed"
  /\ mutex = "free"
  /\ Changed' = TRUE
  /\ fpc' = [fpc EXCEPT ![f] = Ret(f)]
  /\ mark' = [mark EXCEPT ![f] = NoMark]
  /\ UNCHANGED <<Indexes, mutex, fsVars, lifeVars, data, workVars, restartVars, twinVars, snapVars, file0,
                 loaded, mkdirErr, adv, last, before>>

saveIndexes(f) ==
  \/ SaveBegin(f)
  \/ WriteOk(f)
  \/ WriteFail(f)
  \/ Restore(f)

\* ------------------------------------------- the ticker and its goroutine
\* The ticker's period passes: a tick is put in SaveTicker.C unless one
\* still waits there. A stopped ticker sends no more; Stop does not drain.
Tick ==
  /\ phase = "running"
  /\ ~stopped
  /\ ~tickC
  /\ tickC' = TRUE
  /\ UNCHANGED <<shared, fsVars, phase, ctxDone, stopped, flushVars, workVars,
                 histVars>>

\* select { case <-a.SaveTicker.C: a.saveIndexes() ... }
BgTick ==
  /\ fpc["bg"] = "select"
  /\ tickC
  /\ tickC' = FALSE
  /\ fpc' = [fpc EXCEPT !["bg"] = "save"]
  /\ UNCHANGED <<shared, fsVars, phase, ctxDone, stopped, data, workVars,
                 histVars>>

\* select { ... case <-a.ctx.Done(): return }
BgDone ==
  /\ fpc["bg"] = "select"
  /\ ctxDone
  /\ fpc' = [fpc EXCEPT !["bg"] = "exit"]
  /\ UNCHANGED <<shared, fsVars, lifeVars, data, workVars, histVars>>

\* ---------------------------------------------------------------- Cleanup
\* a.cancel()
Cancel ==
  /\ fpc["cl"] = "idle"
  /\ ctxDone' = TRUE
  /\ fpc' = [fpc EXCEPT !["cl"] = "stop"]
  /\ UNCHANGED <<shared, fsVars, phase, stopped, tickC, data, workVars,
                 histVars>>

\* a.SaveTicker.Stop(); next comes a.saveIndexes()
StopTicker ==
  /\ fpc["cl"] = "stop"
  /\ stopped' = TRUE
  /\ fpc' = [fpc EXCEPT !["cl"] = "save"]
  /\ UNCHANGED <<shared, fsVars, phase, ctxDone, tickC, data, workVars,
                 histVars>>

\* ---------------------------------------------------------------- restart
\* What the end of the process leaves of the file: a write in progress may
\* have been cut short.
FileAtExit ==
  IF ~blocked /\ \E f \in Flushers : fpc[f] = "write" THEN {disk, Garbage}
  ELSE {disk}

\* The process ends, at any moment, and a new one is started on the same
\* file: new(AuthModifier) again, every field at its zero value, and nothing
\* kept but the file.
Restart ==
  /\ phase = "running"
  /\ ~restarted
  /\ restarted' = TRUE
  /\ prior' = Indexes
  /\ disk' \in FileAtExit
  /\ flushed' = (~Indexes.nil /\ Advances > 0 /\ disk' = Marshal(Indexes))
  /\ Indexes' = NilMap
  /\ Changed' = FALSE
  /\ mutex' = "free"
  /\ phase' = "new"
  /\ ctxDone' = FALSE
  /\ stopped' = FALSE
  /\ tickC' = FALSE
  /\ fpc' = [f \in Flushers |-> "off"]
  /\ data' = [f \in Flushers |-> NullFile]
  /\ wpc' = [w \in Workers |-> "idle"]
  /\ req' = [w \in Workers |-> NoRequest]
  /\ index' = [w \in Workers |-> 0]
  /\ out' = [w \in Workers |-> NoOut]
  /\ wrote' = [w \in Workers |-> 0]
  /\ file0' = disk'
  /\ loaded' = NilMap
  /\ mkdirErr' = FALSE
  /\ adv' = [k \in Keys |-> NoAdv]
  /\ mark' = [f \in Flushers |-> NoMark]
  /\ last' = [k \in Keys |-> NoLast]
  /\ before' = [w \in Workers |-> NoLast]
  /\ UNCHANGED <<blocked, fails, started, twinVars, snapVars>>

\* A request of such a run; they are served one at a time.
PathBegin(w, r) ==
  /\ started < MaxReqs
  /\ w = 1
  /\ \A v \in Workers : wpc[v] \in {"idle", "done"}
  /\ BeginRequest(w, r)

\* ---------------------------------------------------------- the second run
\* The second run is the same code on its own state; its steps leave the
\* first run alone.
firstRun ==
  <<shared, fsVars, lifeVars, flushVars, workVars, file0, loaded, mkdirErr,
    adv, mark, last, before, restartVars, snapVars>>

\* Provision there: loadIndexes, then the ticker goroutine.
Provision2 ==
  /\ phase = "running"
  /\ fpc2 = "off"
  /\ Indexes2' = loadIndexes(Indexes2, disk2, blocked)
  /\ fpc2' = "select"
  /\ UNCHANGED <<firstRun, Changed2, mutex2, disk2, data2, wpc2, index2, out2,
                 started2>>

\* ServeHTTP there, for the request the first run was given last: the read
\* of index under the read lock and on to the first call of updateIndex.
Begin2 ==
  /\ fpc2 # "off"
  /\ started2 < started
  /\ wpc2 \in {"idle", "done"}
  /\ mutex2 = "free"
  /\ LET i == Get(Indexes2, req[1].key)
         p == AuthPhase(req[1], i)
     IN /\ index2' = i
        /\ out2' = p.out
        /\ wpc2' = p.pc
  /\ started2' = started2 + 1
  /\ UNCHANGED <<firstRun, Indexes2, Changed2, mutex2, disk2, fpc2, data2>>

\* updateIndex there.
updateIndex2 ==
  /\ wpc2 \in {"authUpd", "apiUpd"}
  /\ mutex2 = "free"
  /\ LET k == req[1].key
         n == IF wpc2 = "authUpd" THEN Len(AuthTokens(req[1].auth))
              ELSE Len(Split(req[1].api))
         p == IF wpc2 = "authUpd" THEN ApiPhase(req[1], index2, out2)
              ELSE [pc |-> "done", out |-> out2]
     IN IF Indexes2.nil
          THEN /\ mutex2' = "leaked"
               /\ wpc2' = "panic"
               /\ UNCHANGED <<Indexes2, Changed2, out2>>
          ELSE /\ Indexes2' = Put(Indexes2, k, GoRem(Get(Indexes2, k) + 1, n))
               /\ Changed2' = TRUE
               /\ mutex2' = mutex2
               /\ wpc2' = p.pc
               /\ out2' = p.out
  /\ UNCHANGED <<firstRun, disk2, fpc2, data2, index2, started2>>

\* The ticker goroutine there takes a tick and runs saveIndexes up to its
\* Unlock; with Changed false saveIndexes returns and nothing has changed.
SaveBegin2 ==
  /\ fpc2 = "select"
  /\ mutex2 = "free"
  /\ Changed2
  /\ data2' = Marshal(Indexes2)
  /\ Changed2' = FALSE
  /\ fpc2' = "write"
  /\ UNCHANGED <<firstRun, Indexes2, mutex2, disk2, wpc2, index2, out2,
                 started2>>

\* os.WriteFile there returns an error, every time.
WriteFail2 ==
  /\ fpc2 = "write"
  /\ disk2' \in FailedWrite(disk2)
  /\ fpc2' = "failed"
  /\ UNCHANGED <<firstRun, Indexes2, Changed2, mutex2, data2, wpc2, index2,
                 out2, started2>>

\* Mutant: after the failed write the table is set back to what the file
\* holds.
Restore2Rollback ==
  /\ fpc2 = "failed"
  /\ mutex2 = "free"
  /\ Indexes2' = loadIndexes(Indexes2, disk2, blocked)
  /\ Changed2' = TRUE
  /\ fpc2' = "select"
  /\ UNCHANGED <<firstRun, mutex2, disk2, data2, wpc2, index2, out2, started2>>

\* After the failed write there: Lock; a.Changed = true; Unlock; return.
Restore2 ==
  /\ fpc2 = "failed"
  /\ mutex2 = "free"
  /\ Changed2' = TRUE
  /\ fpc2' = "select"
  /\ UNCHANGED <<firstRun, Indexes2, mutex2, disk2, data2, wpc2, index2, out2,
                 started2>>

\* A request is given to the first run when the second has served the one
\* before; requests are served one at a time.
TwinBegin(w, r) ==
  /\ started2 = started
  /\ wpc2 \in {"idle", "done"}
  /\ PathBegin(w, r)

\* ------------------------------------------------------- a.Mutex, lock by lock
\* The critical sections followed step by step: a.Mutex is a sync.RWMutex,
\* Lock waits until no lock is held, RLock until no write lock is held.
SnapRequests ==
  { Request("/a", <<>>, ApiTwo),
    Request("/b", RawThree, <<>>) }

CanLock == ~rw.writer /\ rw.readers = 0
CanRLock == ~rw.writer

\* Mutant: saveIndexes takes the read lock.
SaveLockShared == "RLock"

\* The lock saveIndexes takes: a.Mutex.Lock().
SaveLock == "Lock"

\* a.Mutex after the lock of this kind is taken, and after it is released.
Taken(kind) ==
  IF kind = "Lock" THEN [rw EXCEPT !.writer = TRUE]
  ELSE [rw EXCEPT !.readers = @ + 1]

Released(kind) ==
  IF kind = "Lock" THEN [rw EXCEPT !.writer = FALSE]
  ELSE [rw EXCEPT !.readers = @ - 1]

CanTake(kind) == IF kind = "Lock" THEN CanLock ELSE CanRLock

\* ServeHTTP: a.Mutex.RLock(); index := a.Indexes[r.URL.Path]
PeekLock(w, r) ==
  /\ phase = "running"
  /\ started < MaxReqs
  /\ wpc[w] \in {"idle", "done"}
  /\ CanRLock
  /\ rw' = Taken("RLock")
  /\ index' = [index EXCEPT ![w] = Get(Indexes, r.key)]
  /\ req' = [req EXCEPT ![w] = r]
  /\ wpc' = [wpc EXCEPT ![w] = "peek"]
  /\ out' = [out EXCEPT ![w] = NoOut]
  /\ wrote' = [wrote EXCEPT ![w] = 0]
  /\ started' = started + 1
  /\ before' = [before EXCEPT ![w] = last[r.key]]
  /\ adv' = [adv EXCEPT ![r.key].reqs = @ + (IF Lists(r) > 0 THEN 1 ELSE 0)]
  /\ UNCHANGED <<shared, fsVars, lifeVars, flushVars, file0, loaded, mkdirErr,
                 mark, last, restartVars, twinVars, cursor, snapAt>>

\* a.Mutex.RUnlock(), and on to the first call of updateIndex or to
\* next.ServeHTTP.
PeekUnlock(w) ==
  /\ wpc[w] = "peek"
  /\ rw' = Released("RLock")
  /\ LET p == AuthPhase(req[w], index[w])
     IN /\ out' = [out EXCEPT ![w] = p.out]
        /\ wpc' = [wpc EXCEPT ![w] = p.pc]
        /\ last' = IF p.pc = "done" THEN Passed(req[w].key, w, p.out) ELSE last
  /\ UNCHANGED <<shared, fsVars, lifeVars, flushVars, req, index, wrote,
                 started, file0, loaded, mkdirErr, adv, mark, before,
                 restartVars, twinVars, cursor, snapAt>>

\* updateIndex: a.Mutex.Lock()
AdvLock(w) ==
  /\ wpc[w] \in {"authUpd", "apiUpd"}
  /\ CanLock
  /\ rw' = Taken("Lock")
  /\ wpc' = [wpc EXCEPT ![w] = IF wpc[w] = "authUpd" THEN "authStore" ELSE "apiStore"]
  /\ UNCHANGED <<shared, fsVars, lifeVars, flushVars, req, index, out, wrote,
                 started, file0, loaded, mkdirErr, adv, mark, last, before,
                 restartVars, twinVars, cursor, snapAt>>

\* updateIndex with the lock held: a.Indexes[url] = (a.Indexes[url] + 1) %
\* length (a panic on a nil map, the lock still held); a.Changed = true;
\* a.Mutex.Unlock(); and on to the next call of updateIndex or to
\* next.ServeHTTP.
AdvStore(w) ==
  /\ wpc[w] \in {"authStore", "apiStore"}
  /\ LET k == req[w].key
         n == IF wpc[w] = "authStore" THEN Len(AuthTokens(req[w].auth))
              ELSE Len(Split(req[w].api))
         v == GoRem(Get(Indexes, k) + 1, n)
         p == IF wpc[w] = "authStore" THEN ApiPhase(req[w], index[w], out[w])
              ELSE [pc |-> "done", out |-> out[w]]
     IN IF Indexes.nil
          THEN /\ wpc' = [wpc EXCEPT ![w] = "panic"]
               /\ UNCHANGED <<Indexes, Changed, rw, out, wrote, adv, last>>
          ELSE /\ Indexes' = Put(Indexes, k, v)
               /\ Changed' = TRUE
               /\ rw' = Released("Lock")
               /\ wrote' = [wrote EXCEPT ![w] = v]
               /\ adv' = [adv EXCEPT ![k].cnt = @ + 1, ![k].lens = @ \cup {n}]
               /\ wpc' = [wpc EXCEPT ![w] = p.pc]
               /\ out' = [out EXCEPT ![w] = p.out]
               /\ last' = IF p.pc = "done" THEN Passed(k, w, p.out) ELSE last
  /\ UNCHANGED <<mutex, fsVars, lifeVars, flushVars, req, index, started, file0,
                 loaded, mkdirErr, mark, before, restartVars, twinVars, cursor,
                 snapAt>>

\* saveIndexes: a.Mutex.Lock(); if !a.Changed { a.Mutex.Unlock(); return };
\* else json.Marshal begins to read the table.
SnapLock(f) ==
  /\ fpc[f] = "save"
  /\ CanTake(SaveLock)
  /\ IF ~Changed
       THEN /\ fpc' = [fpc EXCEPT ![f] = Ret(f)]
            /\ UNCHANGED <<data, snapVars>>
       ELSE /\ rw' = Taken(SaveLock)
            /\ fpc' = [fpc EXCEPT ![f] = "ser"]
            /\ data' = [data EXCEPT ![f] = Object(<<>>)]
            /\ cursor' = [cursor EXCEPT ![f] = 0]
            /\ snapAt' = [snapAt EXCEPT ![f] = Indexes]
  /\ UNCHANGED <<shared, fsVars, lifeVars, workVars, file0, loaded, mkdirErr,
                 adv, mark, last, before, restartVars, twinVars>>

\* json.Marshal reads the next key of the table and its position.
SnapRead(f) ==
  /\ fpc[f] = "ser"
  /\ cursor[f] < Len(KeyOrder)
  /\ LET k == KeyOrder[cursor[f] + 1]
     IN data' = [data EXCEPT ![f] =
                  IF k \in DOMAIN Indexes.m
                    THEN Object(Append(@.pairs, Member(JsonKey(k), Indexes.m[k])))
                    ELSE @]
  /\ cursor' = [cursor EXCEPT ![f] = @ + 1]
  /\ UNCHANGED <<shared, fsVars, lifeVars, fpc, workVars, file0, loaded,
                 mkdirErr, adv, mark, last, before, restartVars, twinVars, rw,
                 snapAt>>

\* json.Marshal has returned data: a.Changed = false; a.Mutex.Unlock(); next
\* comes os.WriteFile.
SnapUnlock(f) ==
  /\ fpc[f] = "ser"
  /\ cursor[f] = Len(KeyOrder)
  /\ Changed' = FALSE
  /\ rw' = Released(SaveLock)
  /\ fpc' = [fpc EXCEPT ![f] = "write"]
  /\ data' = [data EXCEPT ![f] = IF Indexes.nil THEN NullFile ELSE @]
  /\ UNCHANGED <<Indexes, mutex, fsVars, lifeVars, workVars, file0, loaded,
                 mkdirErr, adv, mark, last, before, restartVars, twinVars,
                 cursor, snapAt>>

\* ------------------------------------------------------- specifications
Background ==
  \/ \E f \in Flushers : saveIndexes(f)
  \/ Tick
  \/ BgTick
  \/ BgDone
  \/ Cancel
  \/ StopTicker

\* The handler with requests served concurrently.
Next ==
  \/ Provision
  \/ \E w \in Workers : \E r \in Requests : Begin(w, r)
  \/ \E w \in Workers : updateIndex(w)
  \/ Background

Spec == Init /\ [][Next]_vars

\* The handler with requests served one at a time.
NextSeq ==
  \/ Provision
  \/ \E w \in Workers : \E r \in Requests : SeqBegin(w, r)
  \/ \E w \in Workers : updateIndex(w)
  \/ Background

SpecSeq == Init /\ [][NextSeq]_vars

\* Cleanup has been called.
CleanupStarted == fpc["cl"] \notin {"off", "idle"}

\* The handler when no position is advanced once Cleanup has begun.
QuietUpdate(w) == ~CleanupStarted /\ updateIndex(w)

NextQuiet ==
  \/ Provision
  \/ \E w \in Workers : \E r \in Requests : Begin(w, r)
  \/ \E w \in Workers : QuietUpdate(w)
  \/ Background

SpecQuiet == Init /\ [][NextQuiet]_vars

\* The handler while it runs, Cleanup not called: the goroutines are
\* scheduled (each step that stays possible is taken), the ticker keeps
\* firing, requests stop arriving after MaxReqs and file writes stop failing
\* after MaxFail.
NextRun ==
  \/ Provision
  \/ \E w \in Workers : \E r \in Requests : Begin(w, r)
  \/ \E w \in Workers : updateIndex(w)
  \/ saveIndexes("bg")
  \/ Tick
  \/ BgTick

SpecRun ==
  /\ Init
  /\ [][NextRun]_vars
  /\ WF_vars(Provision)
  /\ \A w \in Workers : WF_vars(updateIndex(w))
  /\ WF_vars(saveIndexes("bg"))
  /\ WF_vars(Tick)
  /\ WF_vars(BgTick)

\* The handler ended once and started again on the file it left.
NextRestart ==
  \/ Provision
  \/ \E w \in Workers : \E r \in PathRequests : PathBegin(w, r)
  \/ \E w \in Workers : updateIndex(w)
  \/ Background
  \/ Restart

SpecRestart == Init /\ [][NextRestart]_vars

\* Two runs of the handler on the same file and the same requests: in the
\* first every file write succeeds, in the second every file write fails.
NextTwin ==
  \/ Provision
  \/ \E w \in Workers : \E r \in Requests : TwinBegin(w, r)
  \/ \E w \in Workers : updateIndex(w)
  \/ SaveBegin("bg")
  \/ WriteOk("bg")
  \/ Tick
  \/ BgTick
  \/ Provision2
  \/ Begin2
  \/ updateIndex2
  \/ SaveBegin2
  \/ WriteFail2
  \/ Restore2

\* Both runs start on a directory that can be written.
InitTwin == Init /\ ~blocked

SpecTwin == InitTwin /\ [][NextTwin]_vars

\* The handler with a.Mutex followed lock by lock; file writes succeed.
NextSnap ==
  \/ Provision
  \/ \E w \in Workers : \E r \in SnapRequests : PeekLock(w, r)
  \/ \E w \in Workers : PeekUnlock(w)
  \/ \E w \in Workers : AdvLock(w)
  \/ \E w \in Workers : AdvStore(w)
  \/ \E f \in Flushers : SnapLock(f)
  \/ \E f \in Flushers : SnapRead(f)
  \/ \E f \in Flushers : SnapUnlock(f)
  \/ \E f \in Flushers : WriteOk(f)
  \/ Tick
  \/ BgTick
  \/ BgDone
  \/ Cancel
  \/ StopTicker

SpecSnap == Init /\ [][NextSnap]_vars

\* The handler serving, one at a time, requests that carry both lists.
NextBoth ==
  \/ Provision
  \/ \E w \in Workers : \E r \in BothRequests : SeqBegin(w, r)
  \/ \E w \in Workers : updateIndex(w)
  \/ Background

SpecBoth == Init /\ [][NextBoth]_vars

\* The handler serving, one at a time, requests with an Authorization value.
NextAuth ==
  \/ Provision
  \/ \E w \in Workers : \E r \in AuthRequests : PathBegin(w, r)
  \/ \E w \in Workers : updateIndex(w)
  \/ Background

SpecAuth == Init /\ [][NextAuth]_vars

\* ------------------------------------------------------------ properties
\* The key k was never seen before: the table loaded at startup lacks it.
Fresh(k) == k \notin DOMAIN loaded.m

\* The one list a request with a single list carries.
OneList(r) == IF Len(r.auth) > 0 THEN AuthTokens(r.auth) ELSE Split(r.api)

\* The header value worker w has set for its single list.
OneOut(w) ==
  IF Len(req[w].auth) > 0
    THEN (IF HasBearerPrefix(req[w].auth)
            THEN SubSeq(out[w].auth, 8, Len(out[w].auth)) ELSE out[w].auth)
    ELSE out[w].api

\* C1: requests served one at a time, for a key never seen before, each with
\* one list of the same n candidates: the i-th of them selects the candidate
\* at index (i-1) mod n, and the position stored after it is i mod n.
C1_RoundRobin ==
  \A w \in Workers :
    LET r == req[w]
        k == r.key
        n == Len(OneList(r))
        i == adv[k].reqs
    IN (/\ wpc[w] \in {"authUpd", "apiUpd", "done"}
        /\ Lists(r) = 1
        /\ Fresh(k)
        /\ adv[k].lens \subseteq {n}
        /\ adv[k].cnt = (IF wpc[w] = "done" THEN i ELSE i - 1))
       => /\ SelectIdx(index[w], n) = (i - 1) % n
          /\ OneOut(w) = OneList(r)[((i - 1) % n) + 1]
          /\ wpc[w] = "done" => /\ wrote[w] = i % n
                                /\ Get(Indexes, k) = i % n

\* C1 witness: the third request of such a series over three candidates has
\* been served; it selected the last candidate and the position wrapped to 0.
C1_Witness ==
  \E w \in Workers :
    /\ wpc[w] = "done"
    /\ Lists(req[w]) = 1
    /\ Fresh(req[w].key)
    /\ adv[req[w].key] = [reqs |-> 3, cnt |-> 3, lens |-> {3}]
    /\ index[w] = 2
    /\ Get(Indexes, req[w].key) = 0

\* The workers whose request, for key k with one list of n candidates, has
\* made its selection.
Selected(k, n) ==
  { w \in Workers : /\ wpc[w] \in {"authUpd", "apiUpd", "done"}
                    /\ req[w].key = k
                    /\ Lists(req[w]) = 1
                    /\ Len(OneList(req[w])) = n }

\* C2: when the N <= n requests made so far for a key, each with one list of
\* the same n candidates, have all made their selection, in whatever way
\* their steps interleaved, the indices they selected are N distinct
\* consecutive values modulo n.
C2_ConcurrentDistinct ==
  \A k \in Keys : \A n \in 1..3 :
    LET W == Selected(k, n)
        N == Cardinality(W)
        used == { SelectIdx(index[w], n) : w \in W }
    IN (N >= 1 /\ N <= n /\ adv[k].reqs = N)
       => \E p \in 0..(n - 1) : used = { (p + j) % n : j \in 0..(N - 1) }

\* All the elements of the sequence s differ.
Distinct(s) == \A i, j \in 1..Len(s) : i # j => s[i] # s[j]

\* C3: of two requests for the same key served one right after the other
\* with the same header values, every list holding n >= 2 distinct
\* candidates, the second selects for every scheme present a credential
\* other than the first did.
C3_ConsecutiveDiffer ==
  \A w \in Workers :
    LET r == req[w]
        a == AuthTokens(r.auth)
        g == Split(r.api)
    IN (/\ wpc[w] = "done"
        /\ Lists(r) >= 1
        /\ before[w].req = r
        /\ Len(r.auth) > 0 => (Len(a) >= 2 /\ Distinct(a))
        /\ Len(r.api) > 0 => (Len(g) >= 2 /\ Distinct(g)))
       => /\ Len(r.auth) > 0 => out[w].auth # before[w].out.auth
          /\ Len(r.api) > 0 => out[w].api # before[w].out.api

\* The one length in a set of one length.
TheLen(S) == CHOOSE n \in S : TRUE

\* C4: no advance is lost: when every updateIndex call made for a key had the
\* same length n and the position loaded at startup was p with 0 <= p < n,
\* the stored position after N completed calls is (p + N) mod n, however the
\* calls of concurrent requests interleaved; and a key no call was made for
\* keeps the position, and the presence, it was loaded with.
C4_NoLostAdvance ==
  \A k \in Keys :
    LET p == Get(loaded, k)
    IN /\ (Cardinality(adv[k].lens) = 1 /\ 0 <= p /\ p < TheLen(adv[k].lens))
          => Get(Indexes, k) = (p + adv[k].cnt) % TheLen(adv[k].lens)
       /\ adv[k].cnt = 0
          => /\ Get(Indexes, k) = p
             /\ (k \in DOMAIN Indexes.m) = (k \in DOMAIN loaded.m)

\* C4 witness: two requests for the same key overlapped (both read position
\* 0 before either advanced) and both have advanced it: it stands at 2 of 3,
\* while the other key still holds what was loaded for it.
C4_Witness ==
  /\ NumWorkers >= 2
  /\ wpc[1] = "done" /\ wpc[2] = "done"
  /\ req[1].key = "/b" /\ req[2].key = "/b"
  /\ index[1] = 0 /\ index[2] = 0
  /\ adv["/b"] = [reqs |-> 2, cnt |-> 2, lens |-> {3}]
  /\ Get(Indexes, "/b") = 2
  /\ loaded = Put(EmptyMap, "/a", 1)
  /\ Get(Indexes, "/a") = 1

\* Flusher f's os.WriteFile returns an error in this step.
WriteFails(f) == fpc[f] = "write" /\ fpc'[f] = "failed"

\* Flusher f's os.WriteFile returns nil in this step.
WriteSucceeds(f) == fpc[f] = "write" /\ fpc'[f] = Ret(f)

\* Flusher f's saveIndexes returns after a failed write in this step.
ReturnsFailed(f) == fpc[f] = "failed" /\ fpc'[f] = Ret(f)

\* C5: a file write that fails leaves the file as it was, and Changed is true
\* when that flush returns; after a failure, a flush whose write succeeds
\* writes the table as it serialized it and, when no updateIndex call
\* completed during it, Changed is false when it returns.
C5_FailedWriteRetried ==
  [][\A f \in Flushers :
       /\ WriteFails(f) => disk' = disk
       /\ ReturnsFailed(f) => Changed'
       /\ (WriteSucceeds(f) /\ mark[f].retry)
            => /\ disk' = data[f]
               /\ mark[f].adv = Advances => ~Changed']_vars

\* C6: a flush that finds Changed false returns at once: it writes no file
\* and leaves the table, Changed and the file as they were, in the ticker
\* goroutine and in Cleanup alike.
C6_CleanFlushNoop ==
  [][\A f \in Flushers :
       (fpc[f] = "save" /\ fpc'[f] # "save" /\ ~Changed)
         => /\ fpc'[f] = Ret(f)
            /\ Indexes' = Indexes
            /\ Changed' = Changed
            /\ disk' = disk
            /\ data' = data]_vars

\* C6 witness: Cleanup has returned without ever serializing the table,
\* because the ticker's flush had already written the advances made.
C6_Witness ==
  /\ fpc["cl"] = "returned"
  /\ data["cl"] = NullFile
  /\ Advances > 0
  /\ ~Changed
  /\ disk = Marshal(Indexes)

\* C7: once Cleanup has returned, the ticker goroutine neither starts a
\* saveIndexes nor completes a file write.
C7_NoFlushAfterCleanup ==
  [][fpc["cl"] = "returned"
       => /\ ~(fpc["bg"] = "select" /\ fpc'["bg"] = "save")
          /\ ~(fpc["bg"] = "write" /\ fpc'["bg"] # "write")]_vars

\* C8: when no file write failed and no position was advanced after Cleanup
\* began, then once Cleanup has returned and no flush is in progress the file
\* holds the table: every advance made is on disk.
C8_ShutdownDurable ==
  (/\ fpc["cl"] = "returned"
   /\ fpc["bg"] \in {"select", "exit"}
   /\ fails = 0 /\ ~blocked
   /\ Advances > 0)
  => disk = Marshal(Indexes)

\* C9: while the handler runs, with the ticker firing, requests ending and
\* file writes succeeding in the end, a table that is dirty is in the end
\* clean and on disk; a failed write only delays that. (In a directory that
\* cannot be entered no write ever succeeds.)
C9_EventuallyPersisted ==
  (Changed /\ ~blocked) ~> (~Changed /\ disk = Marshal(Indexes))

\* C9 witness: a write has failed, and the table, advanced, is clean and on
\* disk all the same.
C9_Witness ==
  /\ fails > 0
  /\ Advances > 0
  /\ fpc["bg"] = "select"
  /\ ~Changed
  /\ disk = Marshal(Indexes)

\* The snapshot file found at startup is absent or does not parse as an
\* object of integers, or its directory could not be created.
StartsUnreadable ==
  \/ blocked
  \/ file0.kind \in {"absent", "garbage"}
  \/ file0.kind = "object" /\ \E i \in 1..Len(file0.pairs) : ~file0.pairs[i].isInt

\* C10: startup does not fail on the persisted state: with the file absent
\* or unparseable, or the directory not creatable, Provision completes with
\* an empty allocated table, and no later request panics or leaves the mutex
\* held.
C10_StartupNeverFails ==
  (phase = "running" /\ StartsUnreadable)
  => /\ loaded = EmptyMap
     /\ mutex = "free"
     /\ \A w \in Workers : wpc[w] # "panic"
     /\ fpc["bg"] # "off"

\* C10 witness: the file held an object with a value that is no integer;
\* the table started empty and a request has advanced it.
C10_Witness ==
  /\ file0 = Object(<<BadMember("/a")>>)
  /\ loaded = EmptyMap
  /\ Advances > 0
  /\ Get(Indexes, "/a") = 1
  /\ \E w \in Workers : wpc[w] = "done" /\ req[w].key = "/a"

\* C11: round trip across a restart: when the process ended with its table,
\* reached by advances, flushed to the file, the table the next process
\* loads has the same keys and positions, and the first request for a key
\* after the restart reads the position stored before it.
C11_RoundTrip ==
  (restarted /\ flushed /\ phase = "running")
  => /\ loaded = prior
     /\ \A w \in Workers :
          (wpc[w] # "idle" /\ Lists(req[w]) > 0 /\ adv[req[w].key].reqs = 1)
            => index[w] = Get(prior, req[w].key)

\* A request arrives at worker w in this step.
Arrives(w) ==
  /\ started' = started + 1
  /\ wpc'[w] # "idle"
  /\ \A v \in Workers \ {w} : wpc'[v] = wpc[v] /\ req'[v] = req[v]

\* C12: a request with neither an Authorization nor an X-Goog-Api-Key value
\* is passed on at once, no header set and no updateIndex call made, and it
\* leaves the table (its keys too: the peek inserts nothing), Changed and the
\* file as they were.
C12_NoHeaderNoChange ==
  [][\A w \in Workers :
       (Arrives(w) /\ Len(req'[w].auth) = 0 /\ Len(req'[w].api) = 0)
         => /\ wpc'[w] = "done"
            /\ out'[w] = NoOut
            /\ Indexes' = Indexes
            /\ Changed' = Changed
            /\ adv' = adv
            /\ disk' = disk]_vars

\* C12 witness: such a request for a key the table does not hold has been
\* passed on; the table still lacks the key and is clean.
C12_Witness ==
  \E w \in Workers :
    /\ wpc[w] = "done"
    /\ req[w] = Request("/a", <<>>, <<>>)
    /\ out[w] = NoOut
    /\ ~Indexes.nil
    /\ "/a" \notin DOMAIN Indexes.m
    /\ ~Changed

\* The Authorization value h is the bearer prefix followed by nothing but
\* white space: it names no candidate.
NamesNoCandidate(h) ==
  HasBearerPrefix(h) /\ TrimSpace(SubSeq(h, 8, Len(h))) = <<>>

\* C13: a scheme whose value names no candidate makes no selection: for an
\* Authorization value that is the bearer prefix followed by nothing, the
\* header is not set and no updateIndex call is made for it, so that a
\* request with nothing else is passed on as it came, Changed not set.
C13_EmptyListIgnored ==
  \A w \in Workers :
    (wpc[w] # "idle" /\ NamesNoCandidate(req[w].auth))
      => /\ ~out[w].authSet
         /\ wpc[w] # "authUpd"
         /\ Len(req[w].api) = 0 => wpc[w] = "done"

\* Both runs have served the same requests and are between requests.
BothServed ==
  /\ started2 = started
  /\ wpc[1] \in {"done", "panic"}
  /\ wpc2 \in {"done", "panic"}

\* The two runs selected the same credentials and store the same positions.
SameRotation ==
  BothServed => /\ wpc2 = wpc[1]
                /\ index2 = index[1]
                /\ out2 = out[1]
                /\ Indexes2 = Indexes

\* C14: persistence does not influence rotation: no step of a flush, its
\* write succeeding or failing, changes the table; no step of a request
\* writes the file; and of two runs given the same requests, one whose
\* writes all succeed and one whose writes all fail, both select the same
\* credentials and store the same positions.
C14_PersistenceIndependent ==
  [][/\ (phase = "running" /\ fpc' # fpc) => Indexes' = Indexes
     /\ (fpc2 # "off" /\ fpc2' # fpc2) => Indexes2' = Indexes2
     /\ (wpc' # wpc \/ started' # started) => disk' = disk
     /\ (wpc2' # wpc2 \/ started2' # started2) => disk2' = disk2
     /\ SameRotation']_vars

\* C14 witness: both runs have served two requests and stand alike; the
\* first run's file holds its table, the second run's file was cut short by
\* a failed write and its table is still dirty.
C14_Witness ==
  /\ BothServed
  /\ started = 2
  /\ Advances >= 2
  /\ Indexes2 = Indexes
  /\ file0 = Absent
  /\ ~Changed /\ disk = Marshal(Indexes)
  /\ Changed2 /\ disk2 = Garbage /\ fpc2 = "select"

\* No flusher is between its serialization of the table and the end of its
\* saveIndexes.
NoFlushInProgress == \A f \in Flushers : fpc[f] \notin {"write", "failed"}

\* C15: whenever no flush is in progress and Changed is false, loading the
\* file gives exactly the table in memory (an absent or unparseable file
\* giving the empty table), however advances, ticker flushes, failed writes
\* and Cleanup's flush interleave.
C15_CleanMeansOnDisk ==
  (phase = "running" /\ NoFlushInProgress /\ ~Changed)
  => loadIndexes(NilMap, disk, blocked) = Indexes

\* The first n members json.Marshal writes for the table t.
MarshalUpTo(t, n) ==
  LET ps == MarshalFrom(t, 1)
      cnt == Cardinality({k \in DOMAIN t.m : \E i \in 1..n : KeyOrder[i] = k})
  IN SubSeq(ps, 1, cnt)

\* C16: a snapshot is the whole table of one moment, the moment the flush
\* took the lock: while json.Marshal reads the table no peek and no advance
\* is in its critical section and the table stays as it was, what has been
\* read so far is that table's, and the data handed to os.WriteFile is the
\* serialization of that table.
C16_SnapshotConsistent ==
  \A f \in Flushers :
    /\ fpc[f] = "ser"
         => /\ \A w \in Workers : wpc[w] \notin {"peek", "authStore", "apiStore"}
            /\ Indexes = snapAt[f]
            /\ data[f].pairs = MarshalUpTo(snapAt[f], cursor[f])
    /\ fpc[f] = "write" => data[f] = Marshal(snapAt[f])

\* C16 witness: a flush is about to write the snapshot of a table of two
\* keys, and the table has been advanced since it was taken.
C16_Witness ==
  \E f \in Flushers :
    /\ fpc[f] = "write"
    /\ Cardinality(DOMAIN snapAt[f].m) = 2
    /\ Indexes # snapAt[f]
    /\ data[f] = Marshal(snapAt[f])
    /\ \E w \in Workers : wpc[w] = "done" /\ wrote[w] = Get(Indexes, req[w].key)

\* C17: a request with both lists, served alone, having read the position p
\* once at its start: the Authorization candidate is the one at p mod its
\* count, the X-Goog-Api-Key candidate the one at p mod its count, and the
\* position is advanced twice, to (p + 1) mod the Authorization count and
\* from there again by 1 mod the X-Goog-Api-Key count.
C17_SharedIndexTwoAdvances ==
  \A w \in Workers :
    LET r == req[w]
        k == r.key
        a == AuthTokens(r.auth)
        g == Split(r.api)
        p == index[w]
        p1 == (p + 1) % Len(a)
    IN (Lists(r) = 2 /\ p >= 0 /\ wpc[w] \in {"authUpd", "apiUpd", "done"})
       => /\ out[w].auth = AuthRewrite(r.auth, a[(p % Len(a)) + 1])
          /\ wpc[w] = "authUpd"
               => /\ Get(Indexes, k) = p
                  /\ ~out[w].apiSet
                  /\ adv[k].cnt = 2 * adv[k].reqs - 2
          /\ wpc[w] \in {"apiUpd", "done"} => out[w].api = g[(p % Len(g)) + 1]
          /\ wpc[w] = "apiUpd"
               => /\ Get(Indexes, k) = p1
                  /\ adv[k].cnt = 2 * adv[k].reqs - 1
          /\ wpc[w] = "done"
               => /\ Get(Indexes, k) = (p1 + 1) % Len(g)
                  /\ adv[k].cnt = 2 * adv[k].reqs

\* C17 witness: a request with three Authorization candidates and two
\* X-Goog-Api-Key candidates read position 1 and has been served: it
\* selected the second of each, and the position went to 2 and then to 1.
C17_Witness ==
  \E w \in Workers :
    /\ wpc[w] = "done"
    /\ req[w] = Request("/a", RawThree, ApiTwo)
    /\ index[w] = 1
    /\ out[w].auth = <<"b">>
    /\ out[w].api = <<"y">>
    /\ Get(Indexes, "/a") = 1
    /\ wrote[w] = 1

\* The index is a valid position in a list of n candidates.
InRange(i, n) == 0 <= i /\ i < n

\* C18: whatever object of integers the table was loaded from, every stored
\* position is non-negative, the position a request's updateIndex stored is
\* below the count it was called with, and the selection index (the index
\* read, Go's remainder by the count) of every request with a list is in
\* range, so that no selection fails.
C18_PositionsInRange ==
  phase = "running"
  => /\ \A k \in DOMAIN Indexes.m : Indexes.m[k] >= 0
     /\ \A w \in Workers :
          wpc[w] # "idle"
          => /\ Len(req[w].auth) > 0
                  => InRange(SelectIdx(index[w], Len(AuthTokens(req[w].auth))),
                             Len(AuthTokens(req[w].auth)))
             /\ Len(req[w].api) > 0
                  => InRange(SelectIdx(index[w], Len(Split(req[w].api))),
                             Len(Split(req[w].api)))
             /\ (wpc[w] = "done" /\ Lists(req[w]) = 1)
                  => InRange(wrote[w], Len(OneList(req[w])))
             /\ (Lists(req[w]) > 0 /\ ~Indexes.nil) => wpc[w] # "panic"

\* C19: an advance made after a flush serialized the table and cleared
\* Changed, and before that flush returned, is not forgotten: when the flush
\* returns, its write having succeeded or failed, Changed is true.
C19_LateAdvanceKept ==
  [][\A f \in Flushers :
       ((WriteSucceeds(f) \/ ReturnsFailed(f)) /\ Advances > mark[f].adv)
         => Changed']_vars

\* The first 7 characters of h are "bearer " in some letter case.
IsBearerWord(h) ==
  /\ Len(h) >= 7
  /\ h[1] \in {"b", "B"} /\ h[2] \in {"e", "E"} /\ h[3] \in {"a", "A"}
  /\ h[4] \in {"r", "R"} /\ h[5] \in {"e", "E"} /\ h[6] \in {"r", "R"}
  /\ h[7] = " "

\* s without the white space around it.
Strip(s) ==
  LET I == {i \in 1..Len(s) : s[i] \notin {" ", "\t"}}
  IN IF I = {} THEN <<>>
     ELSE SubSeq(s, CHOOSE i \in I : \A j \in I : i <= j,
                    CHOOSE i \in I : \A j \in I : i >= j)

\* The pieces of s between its commas.
Pieces(s) ==
  LET C == {i \in 1..Len(s) : s[i] = ","}
      cut(j) == IF j = 0 THEN 0
                ELSE IF j = Cardinality(C) + 1 THEN Len(s) + 1
                ELSE CHOOSE i \in C : Cardinality({c \in C : c < i}) = j - 1
  IN [j \in 1..(Cardinality(C) + 1) |-> SubSeq(s, cut(j - 1) + 1, cut(j) - 1)]

\* C20: for a non-empty Authorization value, when a selection can be made
\* (the index read is not negative, the table is allocated): with the
\* prefix "bearer " in any letter case the candidates are the pieces of the
\* rest, stripped of the white space around it, and the header becomes
\* "Bearer " and the selected piece; without it the candidates are the pieces
\* of the whole value and the header becomes the selected piece; and the
\* request makes exactly one updateIndex call.
C20_AuthorizationRewrite ==
  \A w \in Workers :
    LET h == req[w].auth
        k == req[w].key
        i == index[w]
        cands == IF IsBearerWord(h) THEN Pieces(Strip(SubSeq(h, 8, Len(h))))
                 ELSE Pieces(h)
        sel == cands[(i % Len(cands)) + 1]
    IN (wpc[w] # "idle" /\ Len(h) > 0 /\ Len(req[w].api) = 0 /\ i >= 0
        /\ ~Indexes.nil)
       => /\ out[w].authSet
          /\ out[w].auth = (IF IsBearerWord(h)
                              THEN <<"B", "e", "a", "r", "e", "r", " ">> \o sel
                              ELSE sel)
          /\ wpc[w] \in {"authUpd", "done"}
          /\ wpc[w] = "authUpd" => adv[k].cnt = adv[k].reqs - 1
          /\ wpc[w] = "done" => adv[k].cnt = adv[k].reqs

\* C20 witness: the value "BEARER", a space, a tab and "a, b " was served
\* with the index 1: the header is "Bearer" and " b", the second piece with
\* its inner space, after one advance.
C20_Witness ==
  \E w \in Workers :
    /\ wpc[w] = "done"
    /\ req[w].auth = BearerSpaced
    /\ index[w] = 1
    /\ out[w].auth = <<"B", "e", "a", "r", "e", "r", " ", " ", "b">>
    /\ adv["/a"].cnt = adv["/a"].reqs

====
